---------------------------- MODULE Spec2Model ----------------------------
(***************************************************************************)
(* Insider wallet PnL manager: the wallet list kept by DataInput, the two  *)
(* PnLCalculator variants (pool-capped redistribution and full clawback)   *)
(* and the number arithmetic they run on.                                  *)
(*                                                                         *)
(* Numbers are JavaScript Numbers modelled as exact extended rationals:    *)
(* a finite value n/d in lowest terms, or one of Infinity, -Infinity, NaN. *)
(* Rounding of binary floating point and the sign of zero are not          *)
(* modelled; every other rule of the operators used by the source is.      *)
(***************************************************************************)
EXTENDS Integers, Sequences, FiniteSets, TLC

(***************************************************************************)
(* Bounds of the model.                                                    *)
(***************************************************************************)
MaxWallets == 3

\* The calls of fetchWalletData made for one wallet.
MaxReconstructions == 2

\* The wallets of a group handed to the calculators as a whole.
MaxGroup == 3

\* The auto-fill requests issued from the new-wallet form.
MaxRequests == 3

\* The wallets stored from the new-wallet form.
MaxStored == 1

(***************************************************************************)
(* Number arithmetic.                                                      *)
(***************************************************************************)
RECURSIVE GCD(_, _)
GCD(a, b) == IF b = 0 THEN a ELSE GCD(b, a % b)

AbsInt(i) == IF i < 0 THEN -i ELSE i

SignInt(i) == IF i > 0 THEN 1 ELSE IF i < 0 THEN -1 ELSE 0

\* The finite number n/d (d # 0), in lowest terms with a positive denominator.
Norm(n, d) ==
    LET g == GCD(AbsInt(n), AbsInt(d))
        s == IF d < 0 THEN -1 ELSE 1
    IN  [t |-> "fin", n |-> s * (n \div g), d |-> s * (d \div g)]

Num(i) == [t |-> "fin", n |-> i, d |-> 1]

Zero == Num(0)

NaN == [t |-> "nan", n |-> 0, d |-> 1]

Infinity == [t |-> "inf", n |-> 1, d |-> 1]

NegInfinity == [t |-> "inf", n |-> -1, d |-> 1]

IsNaN(x) == x.t = "nan"

IsInf(x) == x.t = "inf"

IsFinite(x) == x.t = "fin"

SignedInf(s) == IF s < 0 THEN NegInfinity ELSE Infinity

\* unary minus
Neg(x) == [x EXCEPT !.n = -x.n]

\* Math.abs
MathAbs(x) == [x EXCEPT !.n = AbsInt(x.n)]

\* x + y
Add(x, y) ==
    IF IsNaN(x) \/ IsNaN(y) THEN NaN
    ELSE IF IsInf(x) /\ IsInf(y) THEN (IF x.n = y.n THEN x ELSE NaN)
    ELSE IF IsInf(x) THEN x
    ELSE IF IsInf(y) THEN y
    ELSE Norm(x.n * y.d + y.n * x.d, x.d * y.d)

\* x - y
Sub(x, y) == Add(x, Neg(y))

\* x * y
Mul(x, y) ==
    IF IsNaN(x) \/ IsNaN(y) THEN NaN
    ELSE IF IsInf(x) \/ IsInf(y)
         THEN (IF x.n = 0 \/ y.n = 0 THEN NaN
               ELSE SignedInf(SignInt(x.n) * SignInt(y.n)))
    ELSE LET g1 == GCD(AbsInt(x.n), y.d)
             g2 == GCD(AbsInt(y.n), x.d)
         IN  Norm((x.n \div g1) * (y.n \div g2), (x.d \div g2) * (y.d \div g1))

\* x / y
Div(x, y) ==
    IF IsNaN(x) \/ IsNaN(y) THEN NaN
    ELSE IF IsInf(x) /\ IsInf(y) THEN NaN
    ELSE IF IsInf(x) THEN SignedInf(x.n * (IF y.n < 0 THEN -1 ELSE 1))
    ELSE IF IsInf(y) THEN Zero
    ELSE IF y.n = 0 THEN (IF x.n = 0 THEN NaN ELSE SignedInf(x.n))
    ELSE Mul(x, Norm(y.d, y.n))

\* x > y
Gt(x, y) ==
    IF IsNaN(x) \/ IsNaN(y) THEN FALSE
    ELSE IF IsInf(x) THEN x.n > 0 /\ x # y
    ELSE IF IsInf(y) THEN y.n < 0
    ELSE x.n * y.d > y.n * x.d

\* x === y
StrictEq(x, y) == ~IsNaN(x) /\ ~IsNaN(y) /\ x = y

\* A minimum that always gives its second argument.
MathMinSecond(x, y) == y

\* Math.min, Math.max
MathMin(x, y) ==
    IF IsNaN(x) \/ IsNaN(y) THEN NaN ELSE IF Gt(x, y) THEN y ELSE x

MathMax(x, y) ==
    IF IsNaN(x) \/ IsNaN(y) THEN NaN ELSE IF Gt(y, x) THEN y ELSE x

(***************************************************************************)
(* Inputs of the handlers.                                                 *)
(***************************************************************************)
Form(address, invested, entry, exit) ==
    [walletAddress |-> address, tokenName |-> "PEPE", investedAmount |-> invested,
     entryMarketCap |-> entry, exitMarketCap |-> exit]

\* Clicks on "Add Wallet": what the new-wallet form holds and what Date.now()
\* returns at the click.
Submissions ==
    { [form |-> Form("0xA", 1000, 1000000, 2000000), now |-> 1],
      [form |-> Form("0xB", 1000, 2000000, 3000000), now |-> 2],
      [form |-> Form("0xC", 1000, 2000000, 1000000), now |-> 1],
      [form |-> Form("0xF", 1000, 0, 1000000), now |-> 2],
      [form |-> Form("", 1000, 1000000, 2000000), now |-> 2],
      [form |-> Form("0xH", 0, 1000000, 2000000), now |-> 2] }

Line(nValues, address, invested, entry, exit) ==
    [nValues |-> nValues, walletAddress |-> address, tokenName |-> "PEPE",
     investedAmount |-> invested, entryMarketCap |-> entry, exitMarketCap |-> exit]

\* CSV uploads: whether the header line of the file holds the five expected
\* columns, its data lines (the number of comma-separated values of the line
\* and the five columns after parseFloat(...) || 0), and what Date.now()
\* returns while the file is read.
Uploads ==
    { [headerOk |-> TRUE, now |-> 1,
       lines |-> << Line(5, "0xI", 0, 2000000, 3000000) >>],
      [headerOk |-> TRUE, now |-> 1,
       lines |-> << Line(5, "0xJ", 0, 0, 1000000), Line(3, "0xK", 500, 0, 0) >>],
      [headerOk |-> FALSE, now |-> 2,
       lines |-> << Line(5, "0xL", 1000, 1000000, 2000000) >>],
      [headerOk |-> TRUE, now |-> 2, lines |-> << >>] }

\* Values typed into a custom-percentage field.
Percentages == {60}

Modes == {"equal", "proportional", "custom"}

(***************************************************************************)
(* State.                                                                  *)
(***************************************************************************)
VARIABLES
    wallets,               \* DataInput: useState<WalletData[]>
    walletData,            \* Index: useState<WalletData[]>, the calculators' prop
    redistributionMode,    \* PnLCalculator: useState<string>("equal")
    customPercentages,     \* PnLCalculator: useState<{[key: string]: number}>
    calculatedData,        \* pool-capped PnLCalculator: useState<CalculatedWallet[]>
    calcToast,             \* the toast shown by the pass that set calculatedData
    calculatedDataClawback,\* full-clawback PnLCalculator: its calculatedData
    calcToastClawback      \* the toast shown by the pass that set it

VARIABLES
    transactions,          \* fetchWalletData: the body of the Helius response
    reconstruction,        \* fetchWalletData: the locals of the running call
    returned,              \* the values returned by the calls so far, in order
    lookups,               \* per call, the oracle lookups it made: timestamp and response
    matches,               \* the running call's FIFO matches: buy, sell, amount
    residuals              \* the running call's buyAmount left after matching, per buy

VARIABLES
    newWallet,             \* DataInput: useState<Omit<WalletData, 'id'>>, the form
    tokenData,             \* DataInput: useState<TokenData | null>
    requests,              \* the calls of autoFillWalletData awaiting fetchWalletData
    issued,                \* the number of such calls made so far
    written                \* the last response written into the form

pnlVars == << wallets, walletData, redistributionMode, customPercentages,
              calculatedData, calcToast, calculatedDataClawback, calcToastClawback >>

reconstructionVars ==
    << transactions, reconstruction, returned, lookups, matches, residuals >>

formVars == << newWallet, tokenData, requests, issued, written >>

vars == << pnlVars, reconstructionVars, formVars >>

(***************************************************************************)
(* PnLCalculator.calculatePnL, pool-capped variant.                        *)
(***************************************************************************)
RECURSIVE SumFrom(_, _)
\* values.reduce((sum, v) => sum + v, 0), the additions made left to right
SumFrom(acc, values) ==
    IF values = << >> THEN acc
    ELSE SumFrom(Add(acc, Head(values)), Tail(values))

Sum(values) == SumFrom(Zero, values)

\* A ratio taken the wrong way round: entryMarketCap / exitMarketCap.
MarketCapRatioInverted(wallet) ==
    Div(Num(wallet.entryMarketCap), Num(wallet.exitMarketCap))

\* const marketCapRatio = wallet.exitMarketCap / wallet.entryMarketCap
MarketCapRatio(wallet) ==
    Div(Num(wallet.exitMarketCap), Num(wallet.entryMarketCap))

\* A flag that also counts a rawPnL of 0 as profit: rawPnL >= 0.
IsProfitOrBreakEven(rawPnL) == Gt(rawPnL, Zero) \/ StrictEq(rawPnL, Zero)

\* isProfit: rawPnL > 0
IsProfit(rawPnL) == Gt(rawPnL, Zero)

\* the callback of walletData.map(...)
PnLOf(wallet) ==
    LET marketCapRatio == MarketCapRatio(wallet)
        newValue       == Mul(Num(wallet.investedAmount), marketCapRatio)
        rawPnL         == Sub(newValue, Num(wallet.investedAmount))
        pnLPercentage  == Mul(Sub(marketCapRatio, Num(1)), Num(100))
    IN  [id                   |-> wallet.id,
         walletAddress        |-> wallet.walletAddress,
         tokenName            |-> wallet.tokenName,
         investedAmount       |-> wallet.investedAmount,
         entryMarketCap       |-> wallet.entryMarketCap,
         exitMarketCap        |-> wallet.exitMarketCap,
         rawPnL               |-> rawPnL,
         pnLPercentage        |-> pnLPercentage,
         redistributionAmount |-> Zero,
         finalBalance         |-> Add(Num(wallet.investedAmount), rawPnL),
         isProfit             |-> IsProfit(rawPnL)]

\* A map that hands the records back in the opposite order.
WalletsWithPnLReversed(data) ==
    [i \in 1..Len(data) |-> PnLOf(data[Len(data) + 1 - i])] \o << >>

\* walletData.map(...); the array is built once
WalletsWithPnL(data) == [i \in 1..Len(data) |-> PnLOf(data[i])] \o << >>

IsWinner(w) == w.isProfit

IsLoser(w) == ~w.isProfit

Winners(withPnL) == SelectSeq(withPnL, IsWinner)

Losers(withPnL) == SelectSeq(withPnL, IsLoser)

RawPnLs(ws) == [i \in 1..Len(ws) |-> ws[i].rawPnL]

RedistributionAmounts(ws) == [i \in 1..Len(ws) |-> ws[i].redistributionAmount]

TotalProfit(withPnL) == Sum(RawPnLs(Winners(withPnL)))

TotalLoss(withPnL) == MathAbs(Sum(RawPnLs(Losers(withPnL))))

\* An early return that looks at totalProfit only.
SkipsWithoutProfit(totalProfit, totalLoss) == StrictEq(totalProfit, Zero)

\* the early return: nothing is redistributed
SkipsRedistribution(totalProfit, totalLoss) ==
    StrictEq(totalProfit, Zero) \/ StrictEq(totalLoss, Zero)

\* A pool that is the whole totalProfit, whatever the losses.
PoolUncapped(totalProfit, totalLoss) == totalProfit

\* const redistributionAmount = Math.min(totalProfit, totalLoss)
Pool(totalProfit, totalLoss) == MathMin(totalProfit, totalLoss)

\* customPercentages[loser.id] || 0
CustomPercentageOf(percentages, id) ==
    IF id \in DOMAIN percentages /\ percentages[id] # 0
    THEN Num(percentages[id]) ELSE Zero

\* A switch whose "equal" case hands the whole pool to every loser.
LoserAmountUndivided(loser, pool, nLosers, totalLoss, mode, percentages) ==
    CASE mode = "equal" ->
            pool
      [] mode = "proportional" ->
            Mul(pool, Div(MathAbs(loser.rawPnL), totalLoss))
      [] mode = "custom" ->
            Div(Mul(pool, CustomPercentageOf(percentages, loser.id)), Num(100))
      [] OTHER -> loser.redistributionAmount

\* A switch whose "proportional" case leaves out the division by totalLoss.
LoserAmountUnscaled(loser, pool, nLosers, totalLoss, mode, percentages) ==
    CASE mode = "equal" ->
            Div(pool, Num(nLosers))
      [] mode = "proportional" ->
            Mul(pool, MathAbs(loser.rawPnL))
      [] mode = "custom" ->
            Div(Mul(pool, CustomPercentageOf(percentages, loser.id)), Num(100))
      [] OTHER -> loser.redistributionAmount

\* the switch over redistributionMode in losers.forEach
LoserAmount(loser, pool, nLosers, totalLoss, mode, percentages) ==
    CASE mode = "equal" ->
            Div(pool, Num(nLosers))
      [] mode = "proportional" ->
            Mul(pool, Div(MathAbs(loser.rawPnL), totalLoss))
      [] mode = "custom" ->
            Div(Mul(pool, CustomPercentageOf(percentages, loser.id)), Num(100))
      [] OTHER -> loser.redistributionAmount

\* investedAmount + rawPnL + redistributionAmount
Settle(w, amount) ==
    [w EXCEPT !.redistributionAmount = amount,
              !.finalBalance =
                  Add(Add(Num(w.investedAmount), w.rawPnL), amount)]

\* losers.forEach(...)
AfterLosers(withPnL, pool, totalLoss, mode, percentages) ==
    LET nLosers == Len(Losers(withPnL))
    IN  [i \in 1..Len(withPnL) |->
            IF IsLoser(withPnL[i])
            THEN Settle(withPnL[i],
                        LoserAmount(withPnL[i], pool, nLosers, totalLoss,
                                    mode, percentages))
            ELSE withPnL[i]] \o << >>

\* const totalRedistributionOut = losers.reduce(...)
TotalRedistributionOut(settled) == Sum(RedistributionAmounts(Losers(settled)))

\* A winner charged the whole of what the losers got, whatever its share.
WinnerAmountUnweighted(winner, totalRedistributionOut, totalProfit) ==
    Neg(totalRedistributionOut)

\* A winner charged by the inverse of its share of the profit.
WinnerAmountInverseRatio(winner, totalRedistributionOut, totalProfit) ==
    Mul(Neg(totalRedistributionOut), Div(totalProfit, winner.rawPnL))

\* the body of winners.forEach
WinnerAmount(winner, totalRedistributionOut, totalProfit) ==
    Mul(Neg(totalRedistributionOut), Div(winner.rawPnL, totalProfit))

\* winners.forEach(...)
AfterWinners(settled, totalProfit) ==
    LET totalRedistributionOut == TotalRedistributionOut(settled)
    IN  [i \in 1..Len(settled) |->
            IF IsWinner(settled[i])
            THEN Settle(settled[i],
                        WinnerAmount(settled[i], totalRedistributionOut, totalProfit))
            ELSE settled[i]]

NoToast == "none"

CalculationsComplete == "Calculations Complete"

\* calculatePnL after the map: the value given to setCalculatedData and the
\* toast shown
Redistribute(withPnL, mode, percentages) ==
    LET totalProfit == TotalProfit(withPnL)
        totalLoss   == TotalLoss(withPnL)
    IN  IF SkipsRedistribution(totalProfit, totalLoss)
        THEN [data |-> withPnL, toast |-> NoToast]
        ELSE [data  |-> AfterWinners(
                            AfterLosers(withPnL, Pool(totalProfit, totalLoss),
                                        totalLoss, mode, percentages),
                            totalProfit),
              toast |-> CalculationsComplete]

\* one pass of calculatePnL over a non-empty walletData
calculatePnL(data, mode, percentages) ==
    Redistribute(WalletsWithPnL(data), mode, percentages)

(***************************************************************************)
(* PnLCalculator.calculatePnL, full-clawback variant.                      *)
(***************************************************************************)
\* Math.max(0, winner.finalBalance - winner.investedAmount)
ProfitToRedistribute(winner) ==
    MathMax(Zero, Sub(winner.finalBalance, Num(winner.investedAmount)))

\* the body of winners.forEach
ClawbackWinner(winner) ==
    [winner EXCEPT !.redistributionAmount = Neg(ProfitToRedistribute(winner)),
                   !.finalBalance = Num(winner.investedAmount)]

ProfitsToRedistribute(ws) ==
    [i \in 1..Len(ws) |-> ProfitToRedistribute(ws[i])]

\* totalRedistributableProfit after winners.forEach
TotalRedistributableProfit(withPnL) ==
    Sum(ProfitsToRedistribute(Winners(withPnL)))

\* A loser paid the whole pooled profit, however many losers there are.
ClawbackLoserAmountUndivided(totalRedistributableProfit, nLosers) ==
    totalRedistributableProfit

\* totalRedistributableProfit / losers.length
ClawbackLoserAmount(totalRedistributableProfit, nLosers) ==
    Div(totalRedistributableProfit, Num(nLosers))

RedistributeClawback(withPnL) ==
    LET total   == TotalRedistributableProfit(withPnL)
        nLosers == Len(Losers(withPnL))
    IN  IF SkipsRedistribution(TotalProfit(withPnL), TotalLoss(withPnL))
        THEN [data |-> withPnL, toast |-> NoToast]
        ELSE [data  |-> [i \in 1..Len(withPnL) |->
                            IF IsWinner(withPnL[i])
                            THEN ClawbackWinner(withPnL[i])
                            ELSE Settle(withPnL[i],
                                        ClawbackLoserAmount(total, nLosers))],
              toast |-> CalculationsComplete]

calculatePnLClawback(data) == RedistributeClawback(WalletsWithPnL(data))

(***************************************************************************)
(* DataInput: the wallet list.                                             *)
(***************************************************************************)
\* Date.now().toString()
ManualId(now) == [src |-> "manual", row |-> 0, at |-> now]

\* `csv-${i}-${Date.now()}`
CsvId(i, now) == [src |-> "csv", row |-> i, at |-> now]

WalletOf(fields, id) ==
    [id             |-> id,
     walletAddress  |-> fields.walletAddress,
     tokenName      |-> fields.tokenName,
     investedAmount |-> fields.investedAmount,
     entryMarketCap |-> fields.entryMarketCap,
     exitMarketCap  |-> fields.exitMarketCap]

\* the validation at the top of addWallet
FormIsValid(form) ==
    /\ form.walletAddress # ""
    /\ form.tokenName # ""
    /\ form.investedAmount > 0

HasEnoughValues(numbered) == numbered.line.nValues >= 5

\* the loop over the data lines of the file
CsvWallets(file) ==
    LET numbered == [i \in 1..Len(file.lines) |-> [line |-> file.lines[i], row |-> i]]
        kept     == SelectSeq(numbered, HasEnoughValues)
    IN  [k \in 1..Len(kept) |-> WalletOf(kept[k].line, CsvId(kept[k].row, file.now))]

Ids(ws) == {ws[i].id : i \in 1..Len(ws)}

(***************************************************************************)
(* TokenService: the inputs of fetchWalletData.                            *)
(***************************************************************************)
WalletAddress == "wallet"

ContractAddress == "mint"

\* tokenData.currentMarketCap
CurrentMarketCap == 5000000

\* Math.floor(Date.now() / 1000)
NowSeconds == 20

Transfer(mint, from, to, tokenAmount, decimals) ==
    [mint |-> mint, fromUserAccount |-> from, toUserAccount |-> to,
     tokenAmount |-> tokenAmount, decimals |-> decimals]

In(tokenAmount, decimals) ==
    Transfer(ContractAddress, "pool", WalletAddress, tokenAmount, decimals)

Out(tokenAmount, decimals) ==
    Transfer(ContractAddress, WalletAddress, "pool", tokenAmount, decimals)

Tx(timestamp, tokenTransfers) ==
    [timestamp |-> timestamp, hasTokenTransfers |-> TRUE,
     tokenTransfers |-> tokenTransfers]

TxWithoutTransfers(timestamp) ==
    [timestamp |-> timestamp, hasTokenTransfers |-> FALSE, tokenTransfers |-> << >>]

\* Transaction lists as Helius returns them (not ordered by time).
\* buys 100 @ 0 and 50 @ 10, one sell 120 @ 5
ExampleHistory ==
    << Tx(10, << In(50, 0) >>), Tx(5, << Out(120, 0) >>), Tx(0, << In(100, 0) >>) >>

\* buys 100 @ 0 and 50 @ 3, one sell 120 @ 5
CarryHistory ==
    << Tx(0, << In(1000, 1) >>), Tx(3, << In(50, 0) >>), Tx(5, << Out(120, 0) >>) >>

\* buys 100 @ 1 and 50 @ 2, no sell
OnlyBuysHistory ==
    << Tx(2, << In(50, 0) >>), Tx(1, << In(100, 0) >>) >>

\* buy 100 @ 1, sells 60 @ 2 and 50 @ 3
FullExitHistory ==
    << Tx(3, << Out(50, 0) >>), Tx(2, << Out(60, 0) >>), Tx(1, << In(100, 0) >>) >>

\* buy 100 @ 5, sells 30 @ 2 and 100 @ 5
CoincidingHistory ==
    << Tx(5, << In(100, 0), Out(100, 0) >>), Tx(2, << Out(30, 0) >>) >>

\* sells 10 @ 3 and 5 @ 4, a transfer of another mint, a transaction
\* without tokenTransfers: no buy
NoBuyHistory ==
    << Tx(3, << Out(10, 0) >>),
       Tx(4, << Out(5, 0), Transfer("other", "pool", WalletAddress, 7, 0) >>),
       TxWithoutTransfers(6) >>

\* buy 100 @ 1, sells 0 and 40 @ 2, buy 0 @ 3, sell 0 @ 4
ZeroAmountHistory ==
    << Tx(1, << In(100, 0) >>), Tx(2, << Out(0, 0), Out(40, 0) >>),
       Tx(3, << In(0, 0) >>), Tx(4, << Out(0, 0) >>) >>

Histories ==
    { ExampleHistory, CarryHistory, OnlyBuysHistory, FullExitHistory,
      CoincidingHistory, NoBuyHistory, ZeroAmountHistory, << >> }

\* What fetch(url) of the Helius endpoint does: a response that is ok, a
\* response that is not ok, or a rejection.
HeliusResponses == {"ok", "httpError", "throws"}

\* What the Birdeye endpoint does on one lookup: a body with numeric price
\* and market_cap, such a body with market_cap 0, a body without them, a
\* response that is not ok, or a rejection.
OracleResponses == {"sample", "zeroCapSample", "notFound", "httpError", "throws"}

\* The oracle's data: price and market cap of the token at a timestamp.
HistoricalPrice(timestamp) == timestamp + 2

HistoricalMarketCap(timestamp) == 1000000 * (timestamp + 1)

(***************************************************************************)
(* TokenService.fetchHistoricalPriceAndMarketCapUSD.                       *)
(***************************************************************************)
Null == [isNull |-> TRUE, thrown |-> FALSE, price |-> Zero, marketCap |-> Zero]

PriceAndMarketCap(price, marketCap) ==
    [isNull |-> FALSE, thrown |-> FALSE, price |-> price, marketCap |-> marketCap]

\* A wrapper whose catch hands the rejection on to the caller.
fetchHistoricalRethrowing(response, timestamp) ==
    CASE response = "sample" ->
            PriceAndMarketCap(Num(HistoricalPrice(timestamp)),
                              Num(HistoricalMarketCap(timestamp)))
      [] response = "zeroCapSample" ->
            PriceAndMarketCap(Num(HistoricalPrice(timestamp)), Zero)
      [] response = "throws" -> [Null EXCEPT !.thrown = TRUE]
      [] OTHER -> Null

fetchHistoricalPriceAndMarketCapUSD(response, timestamp) ==
    CASE response = "sample" ->
            PriceAndMarketCap(Num(HistoricalPrice(timestamp)),
                              Num(HistoricalMarketCap(timestamp)))
      [] response = "zeroCapSample" ->
            PriceAndMarketCap(Num(HistoricalPrice(timestamp)), Zero)
      [] OTHER -> Null

\* a Number in a condition: 0 and NaN are falsy
Truthy(x) == ~IsNaN(x) /\ x # Zero

\* entryData && entryData.marketCap ? entryData.marketCap : current
MarketCapOr(data, current) ==
    IF ~data.isNull /\ Truthy(data.marketCap) THEN data.marketCap ELSE current

\* A price that is 1 when the lookup gave none.
PriceOrOne(priceData) ==
    IF ~priceData.isNull /\ Truthy(priceData.price) THEN priceData.price ELSE Num(1)

\* priceData?.price || 0
PriceOrZero(priceData) ==
    IF ~priceData.isNull /\ Truthy(priceData.price) THEN priceData.price ELSE Zero

(***************************************************************************)
(* TokenService.fetchWalletData: the buys and sells of the wallet.         *)
(***************************************************************************)
\* A test that takes every transfer of the mint for a buy.
IsTransferOfMint(transfer) == transfer.mint = ContractAddress

IsBuy(transfer) ==
    transfer.mint = ContractAddress /\ transfer.toUserAccount = WalletAddress

IsSell(transfer) ==
    transfer.mint = ContractAddress /\ transfer.fromUserAccount = WalletAddress

\* transfer.tokenAmount / Math.pow(10, transfer.decimals || 0)
AmountOf(transfer) == Div(Num(transfer.tokenAmount), Num(10 ^ transfer.decimals))

LotsOf(tx, transfers) ==
    [i \in 1..Len(transfers) |->
        [amount |-> AmountOf(transfers[i]), timestamp |-> tx.timestamp]]

RECURSIVE BuysOf(_)
BuysOf(txs) ==
    IF txs = << >> THEN << >>
    ELSE (IF Head(txs).hasTokenTransfers
          THEN LotsOf(Head(txs), SelectSeq(Head(txs).tokenTransfers, IsBuy))
          ELSE << >>) \o BuysOf(Tail(txs))

RECURSIVE SellsOf(_)
SellsOf(txs) ==
    IF txs = << >> THEN << >>
    ELSE (IF Head(txs).hasTokenTransfers
          THEN LotsOf(Head(txs), SelectSeq(Head(txs).tokenTransfers, IsSell))
          ELSE << >>) \o SellsOf(Tail(txs))

\* Array.prototype.sort((a, b) => a.timestamp - b.timestamp): stable
RECURSIVE InsertByTimestamp(_, _)
InsertByTimestamp(lot, sorted) ==
    IF sorted = << >> THEN << lot >>
    ELSE IF lot.timestamp < Head(sorted).timestamp THEN << lot >> \o sorted
    ELSE << Head(sorted) >> \o InsertByTimestamp(lot, Tail(sorted))

RECURSIVE SortInto(_, _)
SortInto(sorted, lots) ==
    IF lots = << >> THEN sorted
    ELSE SortInto(InsertByTimestamp(Head(lots), sorted), Tail(lots))

SortByTimestamp(lots) == SortInto(<< >>, lots)

(***************************************************************************)
(* TokenService.fetchWalletData as a process: one step per stretch of code *)
(* between two awaits or two loop tests.  Array indices count from 1.      *)
(***************************************************************************)
NoBuyError == "No buy (IN) transactions found for this wallet/token."

HeliusError == "Helius API error"

FetchError == "Failed to fetch wallet data"

Failure(error) ==
    [success |-> FALSE, error |-> error, investedAmount |-> Zero,
     entryMarketCap |-> Zero, exitMarketCap |-> Zero]

Success(investedAmount, entryMarketCap, exitMarketCap) ==
    [success |-> TRUE, error |-> "", investedAmount |-> investedAmount,
     entryMarketCap |-> entryMarketCap, exitMarketCap |-> exitMarketCap]

NotCalled ==
    [pc |-> "idle", buys |-> << >>, sells |-> << >>,
     entryTimestamp |-> 0, exitTimestamp |-> 0,
     entryMarketCap |-> Zero, exitMarketCap |-> Zero,
     netTokens |-> Zero, investedAmount |-> Zero,
     sellIndex |-> 1, buyIndex |-> 1, buyAmount |-> Zero]

\* Sells kept from the previous call, when there was one, with the amounts
\* it left in them.
SellsOfCallCached(txs, previous) ==
    IF previous = << >> THEN SellsOf(txs) ELSE previous

\* let sells = [] and the pushes of the loop over the transactions: the
\* array of a call holds nothing of the array of the call before it
SellsOfCall(txs, previous) == SellsOf(txs)

\* The responses the oracle can give to the next lookup of the running
\* call: a repeated call is answered as the call before it was.
Answers ==
    LET call   == Len(lookups)
        lookup == Len(lookups[call]) + 1
    IN  IF call > 1 /\ lookup <= Len(lookups[call - 1])
        THEN {lookups[call - 1][lookup].response}
        ELSE OracleResponses

Logged(timestamp, response) ==
    [lookups EXCEPT ![Len(lookups)] =
        Append(@, [timestamp |-> timestamp, response |-> response])]

Return(value) ==
    /\ returned' = Append(returned, value)
    /\ reconstruction' = [reconstruction EXCEPT !.pc = "idle"]

\* lines 99-134: up to the first oracle lookup
fetchWalletData ==
    /\ reconstruction.pc = "idle"
    /\ Len(returned) < MaxReconstructions
    /\ \E response \in HeliusResponses :
          LET buys  == BuysOf(transactions)
              sells == SellsOfCall(transactions, reconstruction.sells)
              sortedBuys  == SortByTimestamp(buys)
              sortedSells == SortByTimestamp(sells)
          IN  /\ lookups' = Append(lookups, << >>)
              /\ matches' = << >>
              /\ residuals' = << >>
              /\ IF response = "httpError" THEN Return(Failure(HeliusError))
                 ELSE IF response = "throws" THEN Return(Failure(FetchError))
                 ELSE IF Len(buys) = 0
                 THEN /\ returned' = Append(returned, Failure(NoBuyError))
                      /\ reconstruction' =
                            [reconstruction EXCEPT !.pc = "idle", !.buys = buys,
                                                   !.sells = sells]
                 ELSE /\ returned' = returned
                      /\ reconstruction' =
                            [reconstruction EXCEPT
                                !.pc = "entry",
                                !.buys = sortedBuys,
                                !.sells = sortedSells,
                                !.entryTimestamp = sortedBuys[1].timestamp,
                                !.exitTimestamp =
                                    IF Len(sortedSells) > 0
                                    THEN sortedSells[Len(sortedSells)].timestamp
                                    ELSE NowSeconds,
                                !.entryMarketCap = Num(CurrentMarketCap),
                                !.exitMarketCap = Num(CurrentMarketCap)]
    /\ UNCHANGED << pnlVars, formVars, transactions >>

\* lines 135-141
EntryLookup ==
    /\ reconstruction.pc = "entry"
    /\ \E response \in Answers :
          LET entryData == fetchHistoricalPriceAndMarketCapUSD(
                               response, reconstruction.entryTimestamp)
          IN  /\ lookups' = Logged(reconstruction.entryTimestamp, response)
              /\ IF entryData.thrown THEN Return(Failure(FetchError))
                 ELSE /\ returned' = returned
                      /\ reconstruction' =
                            [reconstruction EXCEPT
                                !.pc = "exit",
                                !.entryMarketCap = MarketCapOr(entryData, @)]
    /\ UNCHANGED << pnlVars, formVars, transactions, matches, residuals >>

\* lines 142-152
ExitLookup ==
    /\ reconstruction.pc = "exit"
    /\ \E response \in Answers :
          LET exitData == fetchHistoricalPriceAndMarketCapUSD(
                              response, reconstruction.exitTimestamp)
          IN  /\ lookups' = Logged(reconstruction.exitTimestamp, response)
              /\ IF exitData.thrown THEN Return(Failure(FetchError))
                 ELSE /\ returned' = returned
                      /\ reconstruction' =
                            [reconstruction EXCEPT
                                !.pc = "for",
                                !.exitMarketCap = MarketCapOr(exitData, @),
                                !.netTokens = Zero,
                                !.investedAmount = Zero,
                                !.sellIndex = 1,
                                !.buyIndex = 1]
    /\ UNCHANGED << pnlVars, formVars, transactions, matches, residuals >>

\* line 153-154: the next buy of the for loop
NextBuy ==
    /\ reconstruction.pc = "for"
    /\ reconstruction.buyIndex <= Len(reconstruction.buys)
    /\ reconstruction' =
          [reconstruction EXCEPT
              !.pc = "skip",
              !.buyAmount = reconstruction.buys[reconstruction.buyIndex].amount]
    /\ UNCHANGED << pnlVars, formVars, transactions, returned, lookups, matches, residuals >>

\* A cursor that skips nothing.
SkipsNoSell(sell, buy) == FALSE

\* A cursor that lets a sell made at the very time of the buy through.
SkipsEarlierSell(sell, buy) == sell.timestamp < buy.timestamp

\* sells[sellIndex].timestamp <= buy.timestamp
SkipsSell(sell, buy) == sell.timestamp <= buy.timestamp

\* the test of the first while loop
MustSkip(r) ==
    /\ r.sellIndex <= Len(r.sells)
    /\ SkipsSell(r.sells[r.sellIndex], r.buys[r.buyIndex])

\* A second loop that stops after the first sell of the array.
CanMatchFirstSell(r) ==
    Gt(r.buyAmount, Zero) /\ r.sellIndex <= Len(r.sells) /\ r.sellIndex <= 1

\* the test of the second while loop
CanMatch(r) == Gt(r.buyAmount, Zero) /\ r.sellIndex <= Len(r.sells)

\* lines 156-158: one round of the first while loop
SkipSell ==
    /\ reconstruction.pc = "skip"
    /\ MustSkip(reconstruction)
    /\ reconstruction' = [reconstruction EXCEPT !.sellIndex = @ + 1]
    /\ UNCHANGED << pnlVars, formVars, transactions, returned, lookups, matches, residuals >>

\* lines 160-166: one round of the second while loop
MatchSell ==
    /\ \/ reconstruction.pc = "skip" /\ ~MustSkip(reconstruction)
       \/ reconstruction.pc = "match"
    /\ CanMatch(reconstruction)
    /\ LET sellIndex  == reconstruction.sellIndex
           buy        == reconstruction.buys[reconstruction.buyIndex]
           sell       == reconstruction.sells[sellIndex]
           sellAmount == MathMin(reconstruction.buyAmount, sell.amount)
           left       == Sub(sell.amount, sellAmount)
       IN  /\ reconstruction' =
                 [reconstruction EXCEPT
                     !.pc = "match",
                     !.buyAmount = Sub(@, sellAmount),
                     !.sells[sellIndex].amount = left,
                     !.sellIndex = IF StrictEq(left, Zero) THEN @ + 1 ELSE @]
           /\ matches' = Append(matches,
                 [buy |-> reconstruction.buyIndex, sell |-> sellIndex,
                  buyTimestamp |-> buy.timestamp, sellTimestamp |-> sell.timestamp,
                  amount |-> sellAmount])
    /\ UNCHANGED << pnlVars, formVars, transactions, returned, lookups, residuals >>

\* both while loops of the current buy have ended
LoopsDone(r) ==
    /\ \/ r.pc = "skip" /\ ~MustSkip(r)
       \/ r.pc = "match"
    /\ ~CanMatch(r)

\* lines 167-174: the buy has an amount left, which is priced
PriceBuy ==
    /\ LoopsDone(reconstruction)
    /\ Gt(reconstruction.buyAmount, Zero)
    /\ \E response \in Answers :
          LET buy       == reconstruction.buys[reconstruction.buyIndex]
              priceData == fetchHistoricalPriceAndMarketCapUSD(response, buy.timestamp)
              price     == PriceOrZero(priceData)
          IN  /\ lookups' = Logged(buy.timestamp, response)
              /\ IF priceData.thrown
                 THEN Return(Failure(FetchError)) /\ residuals' = residuals
                 ELSE /\ returned' = returned
                      /\ residuals' = Append(residuals, reconstruction.buyAmount)
                      /\ reconstruction' =
                            [reconstruction EXCEPT
                                !.pc = "for",
                                !.investedAmount =
                                    Add(@, Mul(reconstruction.buyAmount, price)),
                                !.netTokens = Add(@, reconstruction.buyAmount),
                                !.buyIndex = @ + 1]
    /\ UNCHANGED << pnlVars, formVars, transactions, matches >>

\* line 167: the buy has nothing left
BuyConsumed ==
    /\ LoopsDone(reconstruction)
    /\ ~Gt(reconstruction.buyAmount, Zero)
    /\ residuals' = Append(residuals, reconstruction.buyAmount)
    /\ reconstruction' = [reconstruction EXCEPT !.pc = "for", !.buyIndex = @ + 1]
    /\ UNCHANGED << pnlVars, formVars, transactions, returned, lookups, matches >>

\* lines 176-188: the for loop has ended
ReturnPosition ==
    /\ reconstruction.pc = "for"
    /\ reconstruction.buyIndex > Len(reconstruction.buys)
    /\ Return(Success(reconstruction.investedAmount,
                      reconstruction.entryMarketCap,
                      reconstruction.exitMarketCap))
    /\ UNCHANGED << pnlVars, formVars, transactions, lookups, matches, residuals >>

(***************************************************************************)
(* DataInput, auto-fill variant: the new-wallet form, the token loaded by  *)
(* fetchTokenData and the auto-fill requests in flight.                    *)
(***************************************************************************)
\* Values of the wallet address field: two addresses, the beginning of one
\* and a run of blanks.
Addresses == {"0xAAAAAAAAAAAA", "0xBBBBBBBBBBBB", "0xAAAA", "            "}

\* address.length
Length(address) ==
    CASE address = "0xAAAA" -> 6
      [] address = "            " -> 12
      [] OTHER -> 14

\* walletAddress.trim()
Trim(address) == IF address = "            " THEN "" ELSE address

\* useState<TokenData | null>(null), read through tokenData?.name || '' and
\* tokenData?.currentMarketCap || 0
NoToken == [loaded |-> FALSE, name |-> "", currentMarketCap |-> 0]

LoadedToken == [loaded |-> TRUE, name |-> "PEPE", currentMarketCap |-> CurrentMarketCap]

InitialForm ==
    [walletAddress |-> "", tokenName |-> "", investedAmount |-> 0,
     entryMarketCap |-> 0, exitMarketCap |-> 0]

\* the form set by addWallet after the wallet is stored
ResetForm(token) ==
    [walletAddress |-> "", tokenName |-> token.name, investedAmount |-> 0,
     entryMarketCap |-> 0, exitMarketCap |-> token.currentMarketCap]

\* What fetchWalletData resolves to for a wallet address: its position, or
\* a failure.
PositionOf(address) ==
    IF address = "0xAAAAAAAAAAAA"
    THEN [success |-> TRUE, investedAmount |-> 700,
          entryMarketCap |-> 1000000, exitMarketCap |-> 2000000]
    ELSE [success |-> TRUE, investedAmount |-> 120,
          entryMarketCap |-> 3000000, exitMarketCap |-> 1000000]

NoPosition ==
    [success |-> FALSE, investedAmount |-> 0, entryMarketCap |-> 0, exitMarketCap |-> 0]

WalletResults(address) == {PositionOf(address), NoPosition}

\* setNewWallet(prev => ({...prev, investedAmount, entryMarketCap, exitMarketCap}))
Filled(form, request, result) ==
    [form EXCEPT !.investedAmount = result.investedAmount,
                 !.entryMarketCap = result.entryMarketCap,
                 !.exitMarketCap = result.exitMarketCap]

\* No response was written into the form yet.
NothingWritten ==
    [walletAddress |-> "", issued |-> 0, formReset |-> FALSE, formAddress |-> "",
     latestBefore |-> 0]

\* The form is as mounted and nothing was requested.
NoAutoFill ==
    /\ newWallet = InitialForm
    /\ tokenData = NoToken
    /\ requests = << >>
    /\ issued = 0
    /\ written = NothingWritten

(***************************************************************************)
(* The recalculation effect of both calculators: it runs after every       *)
(* change of walletData, redistributionMode or customPercentages, before   *)
(* the next event is handled.                                              *)
(***************************************************************************)
Recalculate(data, mode, percentages) ==
    IF Len(data) > 0
    THEN LET capped   == calculatePnL(data, mode, percentages)
             clawback == calculatePnLClawback(data)
         IN  /\ calculatedData' = capped.data
             /\ calcToast' = capped.toast
             /\ calculatedDataClawback' = clawback.data
             /\ calcToastClawback' = clawback.toast
    ELSE UNCHANGED << calculatedData, calcToast,
                      calculatedDataClawback, calcToastClawback >>

SetWallets(updatedWallets) ==
    /\ wallets' = updatedWallets
    /\ walletData' = updatedWallets
    /\ UNCHANGED << redistributionMode, customPercentages, reconstructionVars >>
    /\ Recalculate(updatedWallets, redistributionMode, customPercentages)

\* No call of fetchWalletData has been made.
NoReconstruction ==
    /\ reconstruction = NotCalled
    /\ returned = << >>
    /\ lookups = << >>
    /\ matches = << >>
    /\ residuals = << >>

Init ==
    /\ wallets = << >>
    /\ walletData = << >>
    /\ redistributionMode = "equal"
    /\ customPercentages = << >>
    /\ calculatedData = << >>
    /\ calcToast = NoToast
    /\ calculatedDataClawback = << >>
    /\ calcToastClawback = NoToast
    /\ transactions = << >>
    /\ NoReconstruction
    /\ NoAutoFill

addWallet ==
    \E click \in Submissions :
        /\ FormIsValid(click.form)
        /\ Len(wallets) < MaxWallets
        /\ SetWallets(Append(wallets, WalletOf(click.form, ManualId(click.now))))
        /\ UNCHANGED formVars

removeWallet ==
    \E id \in Ids(wallets) :
        LET Other(w) == w.id # id
        IN  SetWallets(SelectSeq(wallets, Other)) /\ UNCHANGED formVars

handleCSVUpload ==
    \E file \in Uploads :
        /\ Len(file.lines) >= 1
        /\ file.headerOk
        /\ Len(CsvWallets(file)) > 0
        /\ Len(wallets) + Len(CsvWallets(file)) <= MaxWallets
        /\ SetWallets(wallets \o CsvWallets(file))
        /\ UNCHANGED formVars

setRedistributionMode ==
    \E mode \in Modes :
        /\ Len(walletData) > 0
        /\ mode # redistributionMode
        /\ redistributionMode' = mode
        /\ UNCHANGED << wallets, walletData, customPercentages, reconstructionVars,
                        formVars >>
        /\ Recalculate(walletData, mode, customPercentages)

\* setCustomPercentages(prev => ({...prev, [walletId]: percentage}))
WithPercentage(percentages, walletId, percentage) ==
    [k \in DOMAIN percentages \cup {walletId} |->
        IF k = walletId THEN percentage ELSE percentages[k]]

handleCustomPercentageChange ==
    \E walletId \in Ids(Losers(calculatedData)), percentage \in Percentages :
        /\ Len(walletData) > 0
        /\ redistributionMode = "custom"
        /\ customPercentages' = WithPercentage(customPercentages, walletId, percentage)
        /\ UNCHANGED << wallets, walletData, redistributionMode, reconstructionVars,
                        formVars >>
        /\ Recalculate(walletData, redistributionMode, customPercentages')

Next ==
    \/ addWallet
    \/ removeWallet
    \/ handleCSVUpload
    \/ setRedistributionMode
    \/ handleCustomPercentageChange

Spec == Init /\ [][Next]_vars

(***************************************************************************)
(* The reconstruction of one wallet's position: the wallet has some        *)
(* transfer history at Helius and fetchWalletData is called for it, once   *)
(* or repeatedly.                                                          *)
(***************************************************************************)
ReconstructionInit ==
    /\ wallets = << >>
    /\ walletData = << >>
    /\ redistributionMode = "equal"
    /\ customPercentages = << >>
    /\ calculatedData = << >>
    /\ calcToast = NoToast
    /\ calculatedDataClawback = << >>
    /\ calcToastClawback = NoToast
    /\ transactions \in Histories
    /\ NoReconstruction
    /\ NoAutoFill

ReconstructionNext ==
    \/ fetchWalletData
    \/ EntryLookup
    \/ ExitLookup
    \/ NextBuy
    \/ SkipSell
    \/ MatchSell
    \/ PriceBuy
    \/ BuyConsumed
    \/ ReturnPosition

ReconstructionSpec == ReconstructionInit /\ [][ReconstructionNext]_vars

(***************************************************************************)
(* The calculators on a given group: the wallet list already holds a group *)
(* of wallets with distinct ids, the recalculation effect has run on it,   *)
(* and the user changes the redistribution mode and the custom             *)
(* percentages.                                                            *)
(***************************************************************************)
\* Wallets a list can hold: winners of 1000 and 500, losers of 500 and
\* 1500, a wallet that invested nothing and two with entryMarketCap 0.
WalletCatalogue ==
    << WalletOf(Form("0xA", 1000, 1000000, 2000000), ManualId(1)),
       WalletOf(Form("0xB", 1000, 2000000, 3000000), ManualId(2)),
       WalletOf(Form("0xC", 1000, 2000000, 1000000), ManualId(3)),
       WalletOf(Form("0xM", 2000, 2000000, 500000), ManualId(4)),
       WalletOf(Line(5, "0xI", 0, 2000000, 3000000), CsvId(1, 5)),
       WalletOf(Form("0xF", 1000, 0, 1000000), ManualId(6)),
       WalletOf(Line(5, "0xJ", 0, 0, 1000000), CsvId(1, 7)) >>

\* The wallets of the catalogue at the positions of `chosen`, in the order
\* of the catalogue.
Picked(chosen) ==
    LET positions == SelectSeq([k \in 1..Len(WalletCatalogue) |-> k],
                               LAMBDA k : k \in chosen)
    IN  [i \in 1..Len(positions) |-> WalletCatalogue[positions[i]]]

Groups ==
    { Picked(chosen) : chosen \in
        { c \in SUBSET (1..Len(WalletCatalogue)) :
            Cardinality(c) >= 1 /\ Cardinality(c) <= MaxGroup } }

CalculationInit ==
    /\ wallets \in Groups
    /\ walletData = wallets
    /\ redistributionMode = "equal"
    /\ customPercentages = << >>
    /\ calculatedData = calculatePnL(walletData, "equal", << >>).data
    /\ calcToast = calculatePnL(walletData, "equal", << >>).toast
    /\ calculatedDataClawback = calculatePnLClawback(walletData).data
    /\ calcToastClawback = calculatePnLClawback(walletData).toast
    /\ transactions = << >>
    /\ NoReconstruction
    /\ NoAutoFill

CalculationNext ==
    \/ setRedistributionMode
    \/ handleCustomPercentageChange

CalculationSpec == CalculationInit /\ [][CalculationNext]_vars

(***************************************************************************)
(* The new-wallet form of the auto-fill variant: the token is loaded, the  *)
(* user types wallet addresses, every address longer than 10 characters    *)
(* starts a call of autoFillWalletData, the calls resolve in any order,    *)
(* and Add Wallet stores the form and resets it.                           *)
(***************************************************************************)
\* lines 45-87, the successful fetch
fetchTokenData ==
    /\ tokenData = NoToken
    /\ tokenData' = LoadedToken
    /\ newWallet' = [newWallet EXCEPT !.tokenName = LoadedToken.name,
                                      !.exitMarketCap = LoadedToken.currentMarketCap]
    /\ UNCHANGED << pnlVars, reconstructionVars, requests, issued, written >>

\* if (!tokenData || !contractAddress.trim() || !walletAddress.trim()) return
StartsRequest(address) ==
    Length(address) > 10 /\ tokenData.loaded /\ Trim(address) # ""

\* lines 266-272 and autoFillWalletData up to its await
onWalletAddressChange ==
    \E address \in Addresses :
        /\ address # newWallet.walletAddress
        /\ newWallet' = [newWallet EXCEPT !.walletAddress = address]
        /\ IF StartsRequest(address)
           THEN /\ issued < MaxRequests
                /\ issued' = issued + 1
                /\ requests' = Append(requests,
                       [walletAddress |-> address, issued |-> issued + 1,
                        formReset |-> FALSE])
           ELSE UNCHANGED << requests, issued >>
        /\ UNCHANGED << pnlVars, reconstructionVars, tokenData, written >>

Without(s, i) == SubSeq(s, 1, i - 1) \o SubSeq(s, i + 1, Len(s))

\* autoFillWalletData after its await, lines 95-107
autoFillWalletData ==
    \E i \in 1..Len(requests) :
        \E result \in WalletResults(requests[i].walletAddress) :
            /\ requests' = Without(requests, i)
            /\ IF result.success
               THEN /\ newWallet' = Filled(newWallet, requests[i], result)
                    /\ written' =
                           [walletAddress |-> requests[i].walletAddress,
                            issued        |-> requests[i].issued,
                            formReset     |-> requests[i].formReset,
                            formAddress   |-> newWallet.walletAddress,
                            latestBefore  |->
                                IF written.issued > written.latestBefore
                                THEN written.issued ELSE written.latestBefore]
               ELSE UNCHANGED << newWallet, written >>
            /\ UNCHANGED << pnlVars, reconstructionVars, tokenData, issued >>

\* Date.now() at a click on Add Wallet
FormClock == {1}

\* addWallet on the form, lines 113-144
addWalletOfForm ==
    \E now \in FormClock :
        /\ FormIsValid(newWallet)
        /\ Len(wallets) < MaxStored
        /\ SetWallets(Append(wallets, WalletOf(newWallet, ManualId(now))))
        /\ newWallet' = ResetForm(tokenData)
        /\ requests' = [i \in 1..Len(requests) |->
                           [requests[i] EXCEPT !.formReset = TRUE]]
        /\ UNCHANGED << tokenData, issued, written >>

AutoFillInit == Init

AutoFillNext ==
    \/ fetchTokenData
    \/ onWalletAddressChange
    \/ autoFillWalletData
    \/ addWalletOfForm

AutoFillSpec == AutoFillInit /\ [][AutoFillNext]_vars

(***************************************************************************)
(* Quantities of a calculated group, written from the specification's      *)
(* definitions over the fields of the records: the winners are the        *)
(* records with isProfit, totalProfit is the sum of rawPnL over them,      *)
(* totalLoss the sum of |rawPnL| over the others, pool their minimum.      *)
(***************************************************************************)
SumOver(group, Term(_)) == Sum([i \in 1..Len(group) |-> Term(group[i])])

ProfitOf(group) ==
    SumOver(group, LAMBDA r : IF r.isProfit THEN r.rawPnL ELSE Zero)

LossOf(group) ==
    SumOver(group, LAMBDA r : IF r.isProfit THEN Zero ELSE MathAbs(r.rawPnL))

CapOf(group) == MathMin(ProfitOf(group), LossOf(group))

RedistributionSum(group) == SumOver(group, LAMBDA r : r.redistributionAmount)

LoserShareSum(group) ==
    SumOver(group, LAMBDA r : IF r.isProfit THEN Zero ELSE r.redistributionAmount)

LoserCount(group) == Cardinality({i \in 1..Len(group) : ~group[i].isProfit})

WinnerCount(group) == Cardinality({i \in 1..Len(group) : group[i].isProfit})

Records(group) == {group[i] : i \in 1..Len(group)}

PositiveEntryCaps(group) == \A r \in Records(group) : r.entryMarketCap > 0

\* The percentages the losers of a group hold in customPercentages, summed.
LoserPercentageSum(group) ==
    SumOver(group, LAMBDA r : IF r.isProfit THEN Zero
                              ELSE CustomPercentageOf(customPercentages, r.id))

Identity(r) ==
    r.finalBalance = Add(Add(Num(r.investedAmount), r.rawPnL), r.redistributionAmount)

(***************************************************************************)
(* C1: after a calculation pass the redistributionAmount values of the     *)
(* group sum to 0, under every policy and in both calculators.             *)
(***************************************************************************)
ZeroSum ==
    /\ RedistributionSum(calculatedData) = Zero
    /\ RedistributionSum(calculatedDataClawback) = Zero

\* C1 on the groups whose records all have entryMarketCap > 0.
ZeroSumOnPositiveEntryCaps ==
    PositiveEntryCaps(calculatedData) => ZeroSum

(***************************************************************************)
(* C3: every record of a calculation pass has                              *)
(* finalBalance = investedAmount + rawPnL + redistributionAmount, in both  *)
(* calculators.                                                            *)
(***************************************************************************)
FinalBalanceIdentity ==
    /\ \A r \in Records(calculatedData) : Identity(r)
    /\ \A r \in Records(calculatedDataClawback) : Identity(r)

\* C3 on the groups whose records all have entryMarketCap > 0.
FinalBalanceIdentityOnPositiveEntryCaps ==
    PositiveEntryCaps(calculatedData) => FinalBalanceIdentity

(***************************************************************************)
(* C2: the losers of a group together receive at most                      *)
(* pool = min(totalProfit, totalLoss), under every policy and in both      *)
(* calculators.                                                            *)
(***************************************************************************)
PoolCap(group) == ~Gt(LoserShareSum(group), CapOf(group))

Untouched(group) ==
    \A r \in Records(group) :
        /\ r.redistributionAmount = Zero
        /\ r.finalBalance = Add(Num(r.investedAmount), r.rawPnL)

OnePartitionEmpty(group) == WinnerCount(group) = 0 \/ LoserCount(group) = 0

RedistributesIffBothPartitions ==
    /\ OnePartitionEmpty(calculatedData)
          => Untouched(calculatedData) /\ calcToast = NoToast
    /\ ~OnePartitionEmpty(calculatedData) => calcToast = CalculationsComplete
    /\ OnePartitionEmpty(calculatedDataClawback)
          => Untouched(calculatedDataClawback) /\ calcToastClawback = NoToast
    /\ ~OnePartitionEmpty(calculatedDataClawback)
          => calcToastClawback = CalculationsComplete

(***************************************************************************)
(* C4, amended: a group without a winner or without a loser is left        *)
(* untouched, and a group is redistributed exactly when its totalProfit    *)
(* and its totalLoss are both different from 0; a group whose losers all   *)
(* have rawPnL 0 is left untouched although it has a winner.               *)
(***************************************************************************)
BothTotalsNonZero(group) ==
    /\ ~StrictEq(ProfitOf(group), Zero)
    /\ ~StrictEq(LossOf(group), Zero)

RedistributesIffBothTotalsNonZero ==
    /\ OnePartitionEmpty(calculatedData)
          => Untouched(calculatedData) /\ calcToast = NoToast
    /\ calcToast = CalculationsComplete <=> BothTotalsNonZero(calculatedData)
    /\ calcToast = NoToast => Untouched(calculatedData)
    /\ OnePartitionEmpty(calculatedDataClawback)
          => Untouched(calculatedDataClawback) /\ calcToastClawback = NoToast
    /\ calcToastClawback = CalculationsComplete
          <=> BothTotalsNonZero(calculatedDataClawback)
    /\ calcToastClawback = NoToast => Untouched(calculatedDataClawback)

\* A winner and a loser of rawPnL 0: the pass returned without redistributing.
SkippedWithBothPartitionsWitness ==
    /\ Len(walletData) > 0
    /\ WinnerCount(calculatedData) > 0
    /\ LoserCount(calculatedData) > 0
    /\ calcToast = NoToast
    /\ Untouched(calculatedData)

(***************************************************************************)
(* C5: in a group with a winner and a loser, EqualShare gives every loser  *)
(* pool / count(losers) and Proportional gives a loser                     *)
(* pool * |rawPnL| / totalLoss; A (1000 invested, +500) and B (1000        *)
(* invested, -500) under EqualShare end with B +500, A -500 and both       *)
(* finalBalance 1000.                                                      *)
(***************************************************************************)
EqualShareOf(group) == Div(CapOf(group), Num(LoserCount(group)))

ProportionalShareOf(group, r) ==
    Mul(CapOf(group), Div(MathAbs(r.rawPnL), LossOf(group)))

LoserSharesFollowPolicy(group) ==
    \A r \in Records(group) :
        ~r.isProfit =>
            /\ redistributionMode = "equal"
                  => r.redistributionAmount = EqualShareOf(group)
            /\ redistributionMode = "proportional"
                  => r.redistributionAmount = ProportionalShareOf(group, r)

IsExampleGroup(group, a, b) ==
    /\ Len(group) = 2
    /\ {a, b} = {1, 2}
    /\ group[a].investedAmount = 1000 /\ group[a].rawPnL = Num(500)
    /\ group[b].investedAmount = 1000 /\ group[b].rawPnL = Num(-500)

EqualShareExample ==
    \A a, b \in 1..2 :
        IsExampleGroup(calculatedData, a, b) /\ redistributionMode = "equal"
            => /\ calculatedData[b].redistributionAmount = Num(500)
               /\ calculatedData[a].redistributionAmount = Num(-500)
               /\ calculatedData[a].finalBalance = Num(1000)
               /\ calculatedData[b].finalBalance = Num(1000)

LoserSharesWhenBothPartitions ==
    /\ ~OnePartitionEmpty(calculatedData)
          => LoserSharesFollowPolicy(calculatedData)
    /\ EqualShareExample

(***************************************************************************)
(* C5, amended: when the group is redistributed (totalProfit and totalLoss *)
(* both different from 0), EqualShare gives every loser                    *)
(* pool / count(losers) and Proportional gives a loser                     *)
(* pool * |rawPnL| / totalLoss; a group whose losers all have rawPnL 0 is  *)
(* not redistributed and its losers get 0.  The example holds as stated.   *)
(***************************************************************************)
LoserSharesWhenRedistributed ==
    /\ calcToast = CalculationsComplete
          => LoserSharesFollowPolicy(calculatedData)
    /\ calcToast = NoToast
          => \A r \in Records(calculatedData) : r.redistributionAmount = Zero
    /\ EqualShareExample

\* Two losers of different rawPnL were paid under Proportional.
ProportionalSharesWitness ==
    /\ calcToast = CalculationsComplete
    /\ redistributionMode = "proportional"
    /\ \E r, q \in Records(calculatedData) :
          /\ ~r.isProfit /\ ~q.isProfit
          /\ Gt(r.redistributionAmount, q.redistributionAmount)
          /\ Gt(r.redistributionAmount, Zero)

\* The example group of C5 was calculated under EqualShare.
EqualShareExampleReached ==
    /\ redistributionMode = "equal"
    /\ \E a, b \in 1..2 : IsExampleGroup(calculatedData, a, b)

(***************************************************************************)
(* C6: under CustomPercentage every loser gets                             *)
(* pool * percentage[id] / 100, with no validation or renormalisation of   *)
(* the percentages, and a loser without an entry in the percentage map     *)
(* gets 0.                                                                 *)
(***************************************************************************)
CustomShareOf(group, r) ==
    Div(Mul(CapOf(group), CustomPercentageOf(customPercentages, r.id)), Num(100))

CustomShares ==
    redistributionMode = "custom" =>
        \A r \in Records(calculatedData) :
            ~r.isProfit =>
                /\ r.redistributionAmount = CustomShareOf(calculatedData, r)
                /\ r.id \notin DOMAIN customPercentages
                      => r.redistributionAmount = Zero

\* C6 on the groups whose records all have entryMarketCap > 0.
CustomSharesOnPositiveEntryCaps ==
    PositiveEntryCaps(calculatedData) => CustomShares

(***************************************************************************)
(* C7: under every policy every winner gets                                *)
(* -pool * (rawPnL / totalProfit), also under custom percentages that do   *)
(* not sum to 100.                                                         *)
(***************************************************************************)
ProfitRatioOf(group, r) == Div(r.rawPnL, ProfitOf(group))

WinnersPayPoolShare ==
    \A r \in Records(calculatedData) :
        r.isProfit =>
            r.redistributionAmount
                = Neg(Mul(CapOf(calculatedData), ProfitRatioOf(calculatedData, r)))

(***************************************************************************)
(* C7, amended: every winner of a redistributed group gets                 *)
(* -(sum of the losers' redistributionAmount) * (rawPnL / totalProfit);    *)
(* that is -pool * (rawPnL / totalProfit) under EqualShare and             *)
(* Proportional, and -(pool * s / 100) * (rawPnL / totalProfit) under      *)
(* custom percentages whose sum over the losers is s.                      *)
(***************************************************************************)
WinnersPayWhatLosersGet ==
    \A r \in Records(calculatedData) :
        r.isProfit =>
            /\ calcToast = NoToast => r.redistributionAmount = Zero
            /\ calcToast = CalculationsComplete =>
                  /\ r.redistributionAmount
                        = Neg(Mul(LoserShareSum(calculatedData),
                                  ProfitRatioOf(calculatedData, r)))
                  /\ redistributionMode \in {"equal", "proportional"}
                        => r.redistributionAmount
                              = Neg(Mul(CapOf(calculatedData),
                                        ProfitRatioOf(calculatedData, r)))
                  /\ redistributionMode = "custom"
                        => r.redistributionAmount
                              = Neg(Mul(Div(Mul(CapOf(calculatedData),
                                                LoserPercentageSum(calculatedData)),
                                            Num(100)),
                                        ProfitRatioOf(calculatedData, r)))

\* Two winners pay for losers whose custom percentages sum to 60.
WinnersPaySixtyPercentWitness ==
    /\ calcToast = CalculationsComplete
    /\ redistributionMode = "custom"
    /\ WinnerCount(calculatedData) >= 2
    /\ LoserPercentageSum(calculatedData) = Num(60)
    /\ \E r \in Records(calculatedData) :
          /\ r.isProfit
          /\ Gt(Zero, r.redistributionAmount)
          /\ Gt(r.redistributionAmount,
                Neg(Mul(CapOf(calculatedData), ProfitRatioOf(calculatedData, r))))

(***************************************************************************)
(* C8: every wallet with entryMarketCap > 0 gets                           *)
(* rawPnL = investedAmount * (exitMarketCap / entryMarketCap)              *)
(*          - investedAmount and                                           *)
(* pnLPercentage = (exitMarketCap / entryMarketCap - 1) * 100; a wallet    *)
(* with 1000 invested, entry cap 1,000,000 and exit cap 2,000,000 has      *)
(* rawPnL 1000 and pnLPercentage 100.                                      *)
(***************************************************************************)
CalculatedRecords == Records(calculatedData) \cup Records(calculatedDataClawback)

CapRatioOf(r) == Div(Num(r.exitMarketCap), Num(r.entryMarketCap))

IsDoubledThousand(r) ==
    /\ r.investedAmount = 1000
    /\ r.entryMarketCap = 1000000
    /\ r.exitMarketCap = 2000000

PnLFormulas ==
    \A r \in CalculatedRecords :
        /\ r.entryMarketCap > 0 =>
              /\ r.rawPnL = Sub(Mul(Num(r.investedAmount), CapRatioOf(r)),
                                Num(r.investedAmount))
              /\ r.pnLPercentage = Mul(Sub(CapRatioOf(r), Num(1)), Num(100))
        /\ IsDoubledThousand(r) =>
              r.rawPnL = Num(1000) /\ r.pnLPercentage = Num(100)

\* The wallet of the example was calculated by both calculators.
DoubledThousandWitness ==
    /\ \E r \in Records(calculatedData) :
          IsDoubledThousand(r) /\ r.rawPnL = Num(1000)
    /\ \E r \in Records(calculatedDataClawback) :
          IsDoubledThousand(r) /\ r.pnLPercentage = Num(100)

(***************************************************************************)
(* C9: isProfit is true exactly when rawPnL > 0; a wallet with rawPnL 0    *)
(* has isProfit false and is handled as a loser by the redistribution.     *)
(***************************************************************************)
NotAboveZeroCount(group) ==
    Cardinality({i \in 1..Len(group) : ~Gt(group[i].rawPnL, Zero)})

ProfitFlag ==
    /\ \A r \in CalculatedRecords :
          /\ r.isProfit <=> Gt(r.rawPnL, Zero)
          /\ r.rawPnL = Zero => ~r.isProfit
    /\ \A r \in Records(calculatedData) :
          /\ r.rawPnL = Zero
          /\ calcToast = CalculationsComplete
          /\ redistributionMode = "equal"
          => r.redistributionAmount
                = Div(CapOf(calculatedData), Num(NotAboveZeroCount(calculatedData)))
    /\ \A r \in Records(calculatedDataClawback) :
          /\ r.rawPnL = Zero
          /\ calcToastClawback = CalculationsComplete
          => r.redistributionAmount
                = Div(ProfitOf(calculatedDataClawback),
                      Num(NotAboveZeroCount(calculatedDataClawback)))

\* A wallet with rawPnL 0 was paid a loser's equal share.
BreakEvenLoserWitness ==
    /\ calcToast = CalculationsComplete
    /\ redistributionMode = "equal"
    /\ \E r \in Records(calculatedData) :
          /\ r.rawPnL = Zero
          /\ ~r.isProfit
          /\ Gt(r.redistributionAmount, Zero)

(***************************************************************************)
(* C10: a wallet with entryMarketCap 0 is reported as a DivisionByZero     *)
(* error and never gets a calculated record carrying a numeric rawPnL,     *)
(* isProfit and redistributionAmount.                                      *)
(***************************************************************************)
ZeroEntryCapNeverCalculated ==
    \A r \in CalculatedRecords : r.entryMarketCap # 0

(***************************************************************************)
(* C11: a wallet with entryMarketCap 0 leaves the other wallets of the     *)
(* pass alone: their rawPnL, redistributionAmount and finalBalance are     *)
(* finite and are what the pass yields without that wallet.                *)
(***************************************************************************)
HasEntryCap(w) == w.entryMarketCap # 0

SameOutcome(r, q) ==
    /\ r.rawPnL = q.rawPnL
    /\ r.redistributionAmount = q.redistributionAmount
    /\ r.finalBalance = q.finalBalance

FiniteOutcome(r) ==
    /\ IsFinite(r.rawPnL)
    /\ IsFinite(r.redistributionAmount)
    /\ IsFinite(r.finalBalance)

BatchIsolation ==
    Len(walletData) > 0 =>
        LET neighbours == SelectSeq(calculatedData, HasEntryCap)
            alone      == calculatePnL(SelectSeq(walletData, HasEntryCap),
                                       redistributionMode, customPercentages).data
        IN  \A i \in 1..Len(neighbours) :
                FiniteOutcome(neighbours[i]) /\ SameOutcome(neighbours[i], alone[i])

(***************************************************************************)
(* C12: a pass returns one record per wallet of its input, in the order of *)
(* the input, each with the input's id, walletAddress, tokenName,          *)
(* investedAmount, entryMarketCap and exitMarketCap; the input itself is   *)
(* left as it was handed over.                                             *)
(***************************************************************************)
CarriesInput(r, w) ==
    /\ r.id = w.id
    /\ r.walletAddress = w.walletAddress
    /\ r.tokenName = w.tokenName
    /\ r.investedAmount = w.investedAmount
    /\ r.entryMarketCap = w.entryMarketCap
    /\ r.exitMarketCap = w.exitMarketCap

AnnotatesInput(group) ==
    /\ Len(group) = Len(walletData)
    /\ \A i \in 1..Len(walletData) : CarriesInput(group[i], walletData[i])

PassKeepsInput ==
    /\ walletData = wallets
    /\ Len(walletData) > 0
          => AnnotatesInput(calculatedData) /\ AnnotatesInput(calculatedDataClawback)

\* Three wallets, the first and the last different, went through a pass
\* that redistributed.
ThreeWalletsAnnotatedWitness ==
    /\ Len(walletData) = 3
    /\ walletData[1].walletAddress # walletData[3].walletAddress
    /\ calcToast = CalculationsComplete
    /\ AnnotatesInput(calculatedData)

(***************************************************************************)
(* The transfer events of the wallet, read off the history: the IN and     *)
(* the OUT events of the token in ascending order of time, and what the    *)
(* calls of fetchWalletData made of them.                                  *)
(***************************************************************************)
InEvents == SortByTimestamp(BuysOf(transactions))

OutEvents == SortByTimestamp(SellsOf(transactions))

HasInEvent ==
    \E i \in 1..Len(transactions) :
        /\ transactions[i].hasTokenTransfers
        /\ \E j \in 1..Len(transactions[i].tokenTransfers) :
              LET transfer == transactions[i].tokenTransfers[j]
              IN  transfer.mint = ContractAddress
                     /\ transfer.toUserAccount = WalletAddress

Calls == 1..Len(returned)

\* The call got the history: Helius answered it.
ReadHistory(c) == returned[c].error \notin {HeliusError, FetchError}

Amounts(events) == [i \in 1..Len(events) |-> events[i].amount]

TotalAmount(events) == Sum(Amounts(events))

\* No call is running and the last one returned a position.
PositionReturned ==
    /\ reconstruction.pc = "idle"
    /\ returned # << >>
    /\ returned[Len(returned)].success

(***************************************************************************)
(* C13: a history without an IN event of the token makes the              *)
(* reconstruction fail with the no-buy error, without a position and       *)
(* before any oracle lookup, however many OUT events it has.               *)
(***************************************************************************)
NoBuyActivity ==
    ~HasInEvent =>
        /\ reconstruction.pc = "idle"
        /\ \A c \in Calls :
              /\ ~returned[c].success
              /\ lookups[c] = << >>
              /\ ReadHistory(c) => returned[c] = Failure(NoBuyError)

\* A history with two OUT events and no IN event was reconstructed.
NoBuyWitness ==
    /\ ~HasInEvent
    /\ Len(OutEvents) = 2
    /\ \E c \in Calls : returned[c] = Failure(NoBuyError) /\ lookups[c] = << >>

(***************************************************************************)
(* First-in-first-out matching as a function of the events: Residuals      *)
(* gives, for each IN event in ascending order, what the OUT events later  *)
(* than it and not used up by earlier IN events leave of it.               *)
(***************************************************************************)
RECURSIVE FirstLater(_, _, _)
FirstLater(outs, cursor, timestamp) ==
    IF cursor <= Len(outs) /\ outs[cursor].timestamp <= timestamp
    THEN FirstLater(outs, cursor + 1, timestamp)
    ELSE cursor

RECURSIVE Consume(_, _, _)
Consume(amount, outs, cursor) ==
    IF Gt(amount, Zero) /\ cursor <= Len(outs)
    THEN LET taken == MathMin(amount, outs[cursor].amount)
             rest  == Sub(outs[cursor].amount, taken)
         IN  Consume(Sub(amount, taken),
                     [outs EXCEPT ![cursor].amount = rest],
                     IF rest = Zero THEN cursor + 1 ELSE cursor)
    ELSE [left |-> amount, outs |-> outs, cursor |-> cursor]

RECURSIVE ResidualsFrom(_, _, _)
ResidualsFrom(ins, outs, cursor) ==
    IF ins = << >>
    THEN << >>
    ELSE LET consumed == Consume(Head(ins).amount, outs,
                                 FirstLater(outs, cursor, Head(ins).timestamp))
         IN  << consumed.left >>
                \o ResidualsFrom(Tail(ins), consumed.outs, consumed.cursor)

Residuals == ResidualsFrom(InEvents, OutEvents, 1)

\* The price a logged lookup gave: that of the oracle at the timestamp, 0
\* when the lookup missed.
PriceOf(lookup) ==
    IF lookup.response \in {"sample", "zeroCapSample"}
    THEN Num(HistoricalPrice(lookup.timestamp))
    ELSE Zero

\* The price lookups of a call come after its entry and exit lookups.
PriceLookups(c) == SubSeq(lookups[c], 3, Len(lookups[c]))

\* The sum over the IN events from the i-th on of residual times price,
\* the prices read in order off the log of price lookups.
RECURSIVE PricedFrom(_, _, _)
PricedFrom(i, left, log) ==
    IF i > Len(InEvents)
    THEN IF log = << >> THEN Zero ELSE NaN
    ELSE IF Gt(left[i], Zero)
         THEN IF log # << >> /\ Head(log).timestamp = InEvents[i].timestamp
              THEN Add(Mul(left[i], PriceOf(Head(log))),
                       PricedFrom(i + 1, left, Tail(log)))
              ELSE NaN
         ELSE PricedFrom(i + 1, left, log)

(***************************************************************************)
(* C14: the invested amount of a position is the sum, over the IN events   *)
(* in ascending order of time, of the residual of the event times the      *)
(* oracle's price at the event's timestamp, the price being 0 when the     *)
(* lookup missed; for a history without OUT events that is the sum of      *)
(* amount times price over all IN events.                                  *)
(***************************************************************************)
NetInvested ==
    \A c \in Calls :
        returned[c].success =>
            /\ returned[c].investedAmount = PricedFrom(1, Residuals, PriceLookups(c))
            /\ OutEvents = << >> =>
                  returned[c].investedAmount
                     = PricedFrom(1, Amounts(InEvents), PriceLookups(c))

\* A history of two buys and no sell was priced, the first buy at the
\* oracle's price and the second on a miss.
NetInvestedOnlyBuysWitness ==
    /\ PositionReturned
    /\ OutEvents = << >>
    /\ Len(InEvents) = 2
    /\ LET log == PriceLookups(Len(returned))
       IN  /\ Len(log) = 2
           /\ log[1].response = "sample"
           /\ log[2].response = "notFound"
           /\ returned[Len(returned)].investedAmount
                 = Mul(InEvents[1].amount, Num(HistoricalPrice(InEvents[1].timestamp)))

(***************************************************************************)
(* C15 as stated: whenever the OUT events total at least as much as the    *)
(* IN events, the reconstruction succeeds with an invested amount of 0.    *)
(***************************************************************************)
SoldOut == ~Gt(TotalAmount(InEvents), TotalAmount(OutEvents))

FullExitWhenSoldOut ==
    HasInEvent /\ SoldOut =>
        \A c \in Calls :
            ReadHistory(c) =>
                returned[c].success /\ returned[c].investedAmount = Zero

\* Every OUT event is later than every IN event.
SellsFollowBuys ==
    \A i \in 1..Len(InEvents), j \in 1..Len(OutEvents) :
        OutEvents[j].timestamp > InEvents[i].timestamp

(***************************************************************************)
(* C15: when every OUT event is later than every IN event and the OUT      *)
(* events total at least as much as the IN events, the reconstruction      *)
(* succeeds with an invested amount of 0.                                  *)
(***************************************************************************)
FullExitWhenSellsFollowBuys ==
    HasInEvent /\ SoldOut /\ SellsFollowBuys =>
        \A c \in Calls :
            ReadHistory(c) =>
                returned[c].success /\ returned[c].investedAmount = Zero

\* A buy was used up by two later sells that total more than it.
FullExitWitness ==
    /\ PositionReturned
    /\ SoldOut
    /\ SellsFollowBuys
    /\ Len(matches) = 2
    /\ residuals = << Zero >>
    /\ returned[Len(returned)].investedAmount = Zero

(***************************************************************************)
(* The example of the carry-forward: buys of 100 at 0 and 50 at 10 and a   *)
(* sell of 120 at 5; and the same with the second buy at 3, before the     *)
(* sell.                                                                   *)
(***************************************************************************)
Lot(amount, timestamp) == [amount |-> Num(amount), timestamp |-> timestamp]

IsExampleSequence ==
    /\ InEvents = << Lot(100, 0), Lot(50, 10) >>
    /\ OutEvents = << Lot(120, 5) >>

IsCarrySequence ==
    /\ InEvents = << Lot(100, 0), Lot(50, 3) >>
    /\ OutEvents = << Lot(120, 5) >>

Match(buy, sell, amount) ==
    [buy |-> buy, sell |-> sell,
     buyTimestamp |-> InEvents[buy].timestamp,
     sellTimestamp |-> OutEvents[sell].timestamp,
     amount |-> Num(amount)]

\* The invested amount the last call returned is `amount` times the price
\* its third lookup gave, and that lookup was made at `timestamp`.
InvestedIs(amount, timestamp) ==
    LET log == PriceLookups(Len(returned))
    IN  /\ Len(log) = 1
        /\ log[1].timestamp = timestamp
        /\ returned[Len(returned)].investedAmount
              = Mul(Num(amount), PriceOf(log[1]))

(***************************************************************************)
(* C16 as stated: on the example the 20 left of the sell are matched       *)
(* against the second buy, whose residual is 30, and the invested amount   *)
(* is 30 times the price at 10.                                            *)
(***************************************************************************)
ExampleCarriesForward ==
    PositionReturned /\ IsExampleSequence =>
        /\ matches = << Match(1, 1, 100), Match(2, 1, 20) >>
        /\ residuals = << Zero, Num(30) >>
        /\ InvestedIs(30, 10)

(***************************************************************************)
(* C16: what a buy leaves of a sell is matched against the next buy when   *)
(* the sell is later than that buy, and is skipped when it is not.  With   *)
(* the second buy at 3 the 20 left of the sell are matched against it, the *)
(* residual is 30 and the invested amount 30 times the price at 3; on the  *)
(* example, with the second buy at 10, they are skipped, the residual is   *)
(* 50 and the invested amount 50 times the price at 10.                    *)
(***************************************************************************)
CarriesForwardToEarlierBuy ==
    /\ PositionReturned /\ IsCarrySequence =>
          /\ matches = << Match(1, 1, 100), Match(2, 1, 20) >>
          /\ residuals = << Zero, Num(30) >>
          /\ InvestedIs(30, 3)
    /\ PositionReturned /\ IsExampleSequence =>
          /\ matches = << Match(1, 1, 100) >>
          /\ residuals = << Zero, Num(50) >>
          /\ InvestedIs(50, 10)

\* The 20 left of the sell were matched against the second buy and the
\* residual of 30 was priced by the oracle.
CarryForwardWitness ==
    /\ PositionReturned
    /\ IsCarrySequence
    /\ Len(matches) = 2
    /\ matches[2].amount = Num(20)
    /\ PriceLookups(Len(returned))[1].response = "sample"
    /\ returned[Len(returned)].investedAmount = Num(30 * HistoricalPrice(3))

\* The example was reconstructed with the oracle's price at 10.
ExampleSkipsWitness ==
    /\ PositionReturned
    /\ IsExampleSequence
    /\ returned[Len(returned)].investedAmount = Num(50 * HistoricalPrice(10))

(***************************************************************************)
(* The market cap the oracle gave at a logged lookup, and the absence of   *)
(* one: a lookup misses when the oracle has no sample, answers with an     *)
(* error or cannot be reached.                                             *)
(***************************************************************************)
IsSample(lookup) == lookup.response \in {"sample", "zeroCapSample"}

MarketCapOf(lookup) ==
    IF lookup.response = "sample"
    THEN Num(HistoricalMarketCap(lookup.timestamp))
    ELSE Zero

ExitEventTimestamp ==
    IF OutEvents = << >>
    THEN NowSeconds
    ELSE OutEvents[Len(OutEvents)].timestamp

\* The entry and exit market caps of call c are those of its first two
\* lookups, made at the earliest buy and at the latest sell or the current
\* time, each replaced by the current market cap when its lookup missed.
MarketCapsOfCall(c) ==
    /\ Len(lookups[c]) >= 2
    /\ lookups[c][1].timestamp = InEvents[1].timestamp
    /\ lookups[c][2].timestamp = ExitEventTimestamp
    /\ returned[c].entryMarketCap =
          IF IsSample(lookups[c][1])
          THEN MarketCapOf(lookups[c][1]) ELSE Num(CurrentMarketCap)
    /\ returned[c].exitMarketCap =
          IF IsSample(lookups[c][2])
          THEN MarketCapOf(lookups[c][2]) ELSE Num(CurrentMarketCap)

(***************************************************************************)
(* C17: the entry market cap of a position is the oracle's market cap at   *)
(* the earliest buy and the exit market cap the oracle's market cap at the *)
(* latest sell, or at the current time when there is no sell; each is the  *)
(* current market cap instead when its own lookup missed.                  *)
(***************************************************************************)
MarketCapsFromOracle ==
    \A c \in Calls : returned[c].success => MarketCapsOfCall(c)

\* The same for the calls whose samples all carry a market cap other than 0.
MarketCapsFromOracleOnNonZeroCaps ==
    \A c \in Calls :
        /\ returned[c].success
        /\ lookups[c][1].response # "zeroCapSample"
        /\ lookups[c][2].response # "zeroCapSample"
        => MarketCapsOfCall(c)

\* The entry lookup gave a sample and the exit lookup missed: the position
\* has the oracle's entry market cap and the current market cap at exit.
IndependentFallbackReached ==
    /\ PositionReturned
    /\ LET c == Len(returned)
       IN  /\ lookups[c][1].response = "sample"
           /\ lookups[c][2].response = "notFound"
           /\ returned[c].entryMarketCap
                 = Num(HistoricalMarketCap(InEvents[1].timestamp))
           /\ returned[c].exitMarketCap = Num(CurrentMarketCap)

(***************************************************************************)
(* C18: with at least one buy in the history, a reconstruction that got    *)
(* the history completes with a position whatever the oracle does at each  *)
(* lookup: an error status, a missing sample or an unreachable oracle at   *)
(* any lookup never ends the call with a failure, and never leaves it      *)
(* without a next step.                                                    *)
(***************************************************************************)
OracleFailuresAbsorbed ==
    /\ \A c \in Calls :
          /\ lookups[c] # << >> => returned[c].success
          /\ HasInEvent /\ ReadHistory(c) => returned[c].success
    /\ reconstruction.pc # "idle" => HasInEvent /\ ENABLED ReconstructionNext

\* A position was returned after the oracle was unreachable at one lookup,
\* answered with an error status at another and had no sample at a third.
AllLookupsFailedWitness ==
    /\ PositionReturned
    /\ LET log == lookups[Len(returned)]
       IN  /\ Len(log) >= 3
           /\ \A k \in 1..Len(log) : ~IsSample(log[k])
           /\ \E k \in 1..Len(log) : log[k].response = "throws"
           /\ \E k \in 1..Len(log) : log[k].response = "httpError"
           /\ \E k \in 1..Len(log) : log[k].response = "notFound"
           /\ returned[Len(returned)]
                 = Success(Zero, Num(CurrentMarketCap), Num(CurrentMarketCap))

(***************************************************************************)
(* Two calls got the same oracle answers when, lookup for lookup in the    *)
(* order they were made, the oracle answered alike.                        *)
(***************************************************************************)
SameAnswers(c, d) ==
    \A k \in 1..Len(lookups[c]) :
        k <= Len(lookups[d]) => lookups[c][k].response = lookups[d][k].response

(***************************************************************************)
(* C19: two reconstructions of the same history with the same oracle       *)
(* answers and the same fallback market cap make the same lookups and      *)
(* return the same result: what the first one took off the amounts of its  *)
(* sells is not seen by the second.                                        *)
(***************************************************************************)
ReconstructionIdempotent ==
    \A c \in Calls, d \in Calls :
        ReadHistory(c) /\ ReadHistory(d) /\ SameAnswers(c, d) =>
            /\ returned[c] = returned[d]
            /\ lookups[c] = lookups[d]

\* A history whose sell was used up by its buys was reconstructed twice,
\* with a priced residual, and gave the same position both times.
ReconstructedTwiceWitness ==
    /\ PositionReturned
    /\ Len(returned) = 2
    /\ returned[1] = returned[2]
    /\ lookups[1] = lookups[2]
    /\ Gt(returned[2].investedAmount, Zero)
    /\ matches # << >>
    /\ \E j \in 1..Len(OutEvents) :
          reconstruction.sells[j].amount # OutEvents[j].amount

(***************************************************************************)
(* What the matches made so far took off the j-th sell.                    *)
(***************************************************************************)
RECURSIVE TakenFrom(_, _)
TakenFrom(j, k) ==
    IF k = 0
    THEN Zero
    ELSE Add(TakenFrom(j, k - 1),
             IF matches[k].sell = j THEN matches[k].amount ELSE Zero)

\* The call at hand, running or just returned with a position, works on
\* the sorted events of the history.
Matching == reconstruction.pc # "idle" \/ PositionReturned

(***************************************************************************)
(* C20: every match pairs a buy with a sell of a strictly greater          *)
(* timestamp; a sell whose timestamp is at most that of the buy at hand is *)
(* skipped, and neither that buy nor a later one takes anything off it.    *)
(***************************************************************************)
Causality ==
    /\ \A k \in 1..Len(matches) :
          /\ matches[k].sellTimestamp > matches[k].buyTimestamp
          /\ \A l \in 1..k : matches[l].buy <= matches[k].buy
    /\ Matching => reconstruction.buys = InEvents
    /\ Matching =>
          \A j \in 1..Len(OutEvents) :
              /\ reconstruction.sells[j].amount
                    = Sub(OutEvents[j].amount, TakenFrom(j, Len(matches)))
              /\ \A k \in 1..Len(matches) :
                    matches[k].sell = j =>
                        OutEvents[j].timestamp > InEvents[matches[k].buy].timestamp
              /\ (\A i \in 1..Len(InEvents) :
                      OutEvents[j].timestamp <= InEvents[i].timestamp)
                    => reconstruction.sells[j].amount = OutEvents[j].amount

\* A sell made at the very time of the buy and a sell made before it were
\* both skipped: nothing was matched and the whole buy was priced.
SkippedSellsWitness ==
    /\ PositionReturned
    /\ Len(InEvents) = 1
    /\ Len(OutEvents) = 2
    /\ OutEvents[1].timestamp < InEvents[1].timestamp
    /\ OutEvents[2].timestamp = InEvents[1].timestamp
    /\ matches = << >>
    /\ reconstruction.sellIndex = 3
    /\ residuals = << InEvents[1].amount >>

(***************************************************************************)
(* What the winners of a group give up, and the bound on it: no winner     *)
(* gives up more than its rawPnL, none ends below its investedAmount, and  *)
(* the winners together give up at most totalLoss.                         *)
(***************************************************************************)
TakenFromWinners(group) ==
    SumOver(group, LAMBDA r : IF r.isProfit THEN Neg(r.redistributionAmount)
                              ELSE Zero)

WinnersKeepPrincipal(group) ==
    /\ \A r \in Records(group) :
          r.isProfit =>
              /\ ~Gt(Neg(r.redistributionAmount), r.rawPnL)
              /\ ~Gt(Num(r.investedAmount), r.finalBalance)
    /\ ~Gt(TakenFromWinners(group), LossOf(group))

RelievedWithinLoss(r) ==
    /\ ~Gt(r.redistributionAmount, MathAbs(r.rawPnL))
    /\ ~Gt(r.finalBalance, Num(r.investedAmount))

LosersRelievedWithinLoss(group) ==
    \A r \in Records(group) : ~r.isProfit => RelievedWithinLoss(r)

\* What EqualShare gives each loser of a group.
EqualShareOfGroup(group) == Div(CapOf(group), Num(LoserCount(group)))

SampleNeverReplaced ==
    \A c \in Calls :
        returned[c].success =>
            /\ IsSample(lookups[c][1])
                  => returned[c].entryMarketCap = MarketCapOf(lookups[c][1])
            /\ IsSample(lookups[c][2])
                  => returned[c].exitMarketCap = MarketCapOf(lookups[c][2])

\* The same for the samples whose market cap is not 0.
NonZeroSampleNeverReplaced ==
    \A c \in Calls :
        returned[c].success =>
            /\ lookups[c][1].response = "sample"
                  => returned[c].entryMarketCap = MarketCapOf(lookups[c][1])
            /\ lookups[c][2].response = "sample"
                  => returned[c].exitMarketCap = MarketCapOf(lookups[c][2])

\* What the code makes of a sample whose market cap is 0: the current
\* market cap.
ZeroCapSampleReplaced ==
    \A c \in Calls :
        returned[c].success =>
            /\ lookups[c][1].response = "zeroCapSample"
                  => returned[c].entryMarketCap = Num(CurrentMarketCap)
            /\ lookups[c][2].response = "zeroCapSample"
                  => returned[c].exitMarketCap = Num(CurrentMarketCap)

(***************************************************************************)
(* C24: in the full-clawback calculator, whenever totalProfit > 0 and      *)
(* totalLoss > 0, every winner has redistributionAmount -rawPnL and        *)
(* finalBalance equal to its investedAmount, and every loser has           *)
(* redistributionAmount totalProfit / count(losers), whatever totalLoss    *)
(* is and whichever mode and custom percentages are selected.              *)
(***************************************************************************)
FullClawback ==
    LET group == calculatedDataClawback
    IN  Gt(ProfitOf(group), Zero) /\ Gt(LossOf(group), Zero) =>
            \A r \in Records(group) :
                IF r.isProfit
                THEN /\ r.redistributionAmount = Neg(r.rawPnL)
                     /\ r.finalBalance = Num(r.investedAmount)
                ELSE /\ r.redistributionAmount
                           = Div(ProfitOf(group), Num(LoserCount(group)))
                     /\ Identity(r)

\* Under custom percentages two losers shared, in two halves, a profit
\* larger than the total loss.
FullClawbackWitness ==
    LET group == calculatedDataClawback
    IN  /\ redistributionMode = "custom"
        /\ customPercentages # << >>
        /\ calcToastClawback = CalculationsComplete
        /\ WinnerCount(group) >= 1
        /\ LoserCount(group) = 2
        /\ PositiveEntryCaps(group)
        /\ Gt(ProfitOf(group), LossOf(group))
        /\ \A r \in Records(group) :
              ~r.isProfit =>
                  r.redistributionAmount = Div(ProfitOf(group), Num(2))

(***************************************************************************)
(* The two calculators settle a group alike when they give every wallet    *)
(* the same redistributionAmount and the same finalBalance.                *)
(***************************************************************************)
SameSettlement(capped, clawback) ==
    /\ Len(capped) = Len(clawback)
    /\ \A i \in 1..Len(capped) :
          /\ capped[i].id = clawback[i].id
          /\ capped[i].redistributionAmount = clawback[i].redistributionAmount
          /\ capped[i].finalBalance = clawback[i].finalBalance

\* x <= y between Numbers: false when either is NaN.
AtMost(x, y) == ~IsNaN(x) /\ ~IsNaN(y) /\ ~Gt(x, y)

(***************************************************************************)
(* C25: under EqualShare the pool-capped calculator and the full-clawback  *)
(* calculator give every wallet the same redistributionAmount and          *)
(* finalBalance in every group with totalProfit <= totalLoss and in every  *)
(* group that is not redistributed; they differ only in groups with        *)
(* totalProfit > totalLoss.                                                *)
(***************************************************************************)
CalculatorsAgreeUpToTotalLoss ==
    redistributionMode = "equal" =>
        /\ AtMost(ProfitOf(calculatedData), LossOf(calculatedData))
              => SameSettlement(calculatedData, calculatedDataClawback)
        /\ calcToast = NoToast
              => SameSettlement(calculatedData, calculatedDataClawback)
        /\ ~SameSettlement(calculatedData, calculatedDataClawback)
              => Gt(ProfitOf(calculatedData), LossOf(calculatedData))

\* C25 on the groups whose records all have entryMarketCap > 0.
CalculatorsAgreeOnPositiveEntryCaps ==
    PositiveEntryCaps(calculatedData) => CalculatorsAgreeUpToTotalLoss

\* A profit of 500 was shared by losers of 500 and 1500 under EqualShare,
\* and both calculators settled the three wallets alike.
CalculatorsAgreeWitness ==
    /\ redistributionMode = "equal"
    /\ calcToast = CalculationsComplete
    /\ calcToastClawback = CalculationsComplete
    /\ LoserCount(calculatedData) = 2
    /\ Gt(LossOf(calculatedData), ProfitOf(calculatedData))
    /\ Gt(LoserShareSum(calculatedData), Zero)
    /\ SameSettlement(calculatedData, calculatedDataClawback)

\* With a profit above the total loss the two calculators differ.
CalculatorsDifferAboveTotalLoss ==
    /\ redistributionMode = "equal"
    /\ PositiveEntryCaps(calculatedData)
    /\ Gt(ProfitOf(calculatedData), LossOf(calculatedData))
    /\ ~SameSettlement(calculatedData, calculatedDataClawback)

(***************************************************************************)
(* C26: the records of the wallet list have pairwise distinct ids, so that *)
(* an id names exactly one record of the list.                             *)
(***************************************************************************)
DistinctIds ==
    \A i \in 1..Len(wallets), j \in 1..Len(wallets) :
        i # j => wallets[i].id # wallets[j].id

\* Records of the list that share an id were created at the same reading
\* of the clock, by the same kind of entry and, for imported rows, at the
\* same row of their files.
SameIdOnlyAtSameClockReading ==
    \A i \in 1..Len(wallets), j \in 1..Len(wallets) :
        wallets[i].id = wallets[j].id =>
            /\ wallets[i].id.at = wallets[j].id.at
            /\ wallets[i].id.src = wallets[j].id.src
            /\ wallets[i].id.row = wallets[j].id.row

\* Two wallets added by hand at the same reading of the clock are in the
\* list under one id.
SharedIdReached ==
    \E i \in 1..Len(wallets), j \in 1..Len(wallets) :
        /\ i # j
        /\ wallets[i].id = wallets[j].id
        /\ wallets[i].walletAddress # wallets[j].walletAddress

(***************************************************************************)
(* C27: once the recalculation effect has run, calculatedData holds one    *)
(* record per wallet of the current walletData, with the same ids in the   *)
(* same order, computed under the current mode and percentages; with an    *)
(* empty walletData it holds no record.  The same for the calculator that  *)
(* passes its calculatedData to onCalculatedData.                          *)
(***************************************************************************)
FreshFor(calculated, data) ==
    /\ Len(calculated) = Len(data)
    /\ \A i \in 1..Len(data) : calculated[i].id = data[i].id

CalculatedDataIsFresh ==
    /\ FreshFor(calculatedData, walletData)
    /\ FreshFor(calculatedDataClawback, walletData)
    /\ Len(walletData) > 0 =>
          /\ calculatedData
                = calculatePnL(walletData, redistributionMode, customPercentages).data
          /\ calculatedDataClawback = calculatePnLClawback(walletData).data

\* C27 while the list holds a wallet.
CalculatedDataIsFreshWhenNonEmpty ==
    Len(walletData) > 0 => CalculatedDataIsFresh

\* What the calculators hold once the list is empty: the records of the
\* last pass over a non-empty list, or nothing when there was none.
StaleAfterLastRemoval ==
    /\ walletData = << >>
    /\ calculatedData # << >>
    /\ calculatedDataClawback # << >>

(***************************************************************************)
(* C28: a response of autoFillWalletData is written into the form only     *)
(* while the form still holds the address it was requested for: never      *)
(* after the address changed, never after the response of a later request  *)
(* was written, never after addWallet reset the form.                      *)
(***************************************************************************)
ResponsesWrittenInTime ==
    written # NothingWritten =>
        /\ written.walletAddress = written.formAddress
        /\ ~written.formReset
        /\ written.latestBefore < written.issued

\* What the code does: a request is made for every address longer than 10
\* characters once the token is loaded, and for no other; the response of
\* a request is written whatever the form holds by then.
EveryResponseWritten ==
    /\ \A i \in 1..Len(requests) :
          /\ Length(requests[i].walletAddress) > 10
          /\ Trim(requests[i].walletAddress) # ""
          /\ tokenData.loaded
          /\ requests[i].issued <= issued
    /\ written # NothingWritten =>
          /\ Length(written.walletAddress) > 10
          /\ written.issued <= issued

\* The response for one address was written while the form held another.
WrittenAfterAddressChange ==
    /\ written.walletAddress # written.formAddress
    /\ written.formAddress # ""
    /\ ~written.formReset
    /\ newWallet.walletAddress = written.formAddress
    /\ newWallet.investedAmount = PositionOf(written.walletAddress).investedAmount
    /\ PositionOf(written.walletAddress) # PositionOf(newWallet.walletAddress)

\* The response of an earlier request was written after that of a later one.
WrittenAfterLaterResponse ==
    written # NothingWritten /\ written.latestBefore > written.issued

\* A response was written into the form after addWallet had reset it.
WrittenAfterReset ==
    /\ written.formReset
    /\ wallets # << >>
    /\ newWallet.walletAddress = ""
    /\ newWallet.investedAmount # 0

(***************************************************************************)
(* C29: during one reconstruction no timestamp is looked up at the oracle  *)
(* more than once: the timestamp of the first buy, the exit timestamp and  *)
(* the timestamps of the buys with a positive residual are looked up once  *)
(* each, also when the first buy has a residual.                           *)
(***************************************************************************)
OncePerTimestamp ==
    \A c \in 1..Len(lookups) :
        \A k \in 1..Len(lookups[c]), l \in 1..Len(lookups[c]) :
            k # l => lookups[c][k].timestamp # lookups[c][l].timestamp

PositiveResiduals == {i \in 1..Len(Residuals) : Gt(Residuals[i], Zero)}

\* What the code does: one lookup for the entry, one for the exit and one
\* for every buy with a positive residual, whatever their timestamps.
OncePerNeed ==
    \A c \in Calls :
        returned[c].success =>
            Len(lookups[c]) = 2 + Cardinality(PositiveResiduals)

\* The first buy has a residual and its timestamp was looked up twice, for
\* the entry market cap and for the price.
FirstBuyLookedUpTwice ==
    /\ PositionReturned
    /\ 1 \in PositiveResiduals
    /\ LET log == lookups[Len(returned)]
       IN  /\ log[1].timestamp = InEvents[1].timestamp
           /\ log[3].timestamp = InEvents[1].timestamp

(***************************************************************************)
(* C30: the first-in-first-out matching of a reconstruction terminates for *)
(* every list of buys and sells with non-negative amounts, zero amounts    *)
(* and equal timestamps included: the sell cursor only moves forward and   *)
(* stays within one past the end of the sells, every round of the inner    *)
(* loop brings the amount left of the buy to 0 or retires the current      *)
(* sell, what is left of a sell stays between 0 and its amount, and what   *)
(* is left of a buy stays between 0 and its amount.  Termination is shown  *)
(* by a rank, a natural number that every step of the loops lowers.        *)
(***************************************************************************)
InMatching == reconstruction.pc \in {"for", "skip", "match"}

Between(x, low, high) == AtMost(low, x) /\ AtMost(x, high)

\* An upper bound of the steps the loops of lines 153-175 still take.
Rank(r) ==
    IF r.pc \notin {"for", "skip", "match"}
    THEN 0
    ELSE 4 * (Len(r.buys) + 1 - r.buyIndex)
            + (Len(r.sells) + 1 - r.sellIndex)
            + (CASE r.pc = "for"   -> 3
                 [] r.pc = "skip"  -> 2
                 [] r.pc = "match" -> IF Gt(r.buyAmount, Zero) THEN 1 ELSE 0)

MatchingWithinBounds ==
    /\ \A i \in 1..Len(residuals) : Between(residuals[i], Zero, InEvents[i].amount)
    /\ InMatching =>
          LET r == reconstruction
          IN  /\ r.sellIndex \in 1..(Len(r.sells) + 1)
              /\ r.buyIndex \in 1..(Len(r.buys) + 1)
              /\ Len(residuals) = r.buyIndex - 1
              /\ Len(r.sells) = Len(OutEvents)
              /\ \A i \in 1..Len(r.sells) :
                    Between(r.sells[i].amount, Zero, OutEvents[i].amount)
              /\ r.pc \in {"skip", "match"} =>
                    Between(r.buyAmount, Zero, r.buys[r.buyIndex].amount)
              /\ Rank(r) \in Nat

MatchingStep ==
    /\ InMatching =>
          /\ Rank(reconstruction') < Rank(reconstruction)
          /\ reconstruction'.sellIndex >= reconstruction.sellIndex
    /\ MatchSell =>
          \/ reconstruction'.buyAmount = Zero
          \/ reconstruction'.sellIndex = reconstruction.sellIndex + 1

MatchingTerminates == []MatchingWithinBounds /\ [][MatchingStep]_vars

\* The history with transfers of amount 0 and two sells of one timestamp
\* was reconstructed: two sells of amount 0 were retired by the first buy,
\* which keeps 60, and the buy of amount 0 keeps 0.
ZeroAmountsMatchedWitness ==
    /\ PositionReturned
    /\ transactions = ZeroAmountHistory
    /\ residuals = << Num(60), Zero >>
    /\ Len(matches) = 3
    /\ matches[1].amount = Zero /\ matches[3].amount = Zero
    /\ matches[1].sellTimestamp = matches[2].sellTimestamp

=============================================================================
